---- MODULE Spec2Model ----
(***************************************************************************)
(* ecco.py: run a PowerShell command, append its output to a log file and  *)
(* follow that log in a separate viewer console.                           *)
(*                                                                         *)
(* Three processes share one file: the orchestrator (run_command_with_     *)
(* viewer), the command's child process (which writes to a pipe) and the   *)
(* viewer (Get-Content -Wait | Select-Object -Skip | ForEach-Object).      *)
(* Text is a sequence of atoms (strings); the atom NL is a line            *)
(* terminator, so a file is what the writes concatenated to.               *)
(***************************************************************************)
EXTENDS Integers, Sequences, FiniteSets, TLC

\* ---------------------------------------------------------------- bounds
\* atoms the child may write to its output before it exits
MaxOut == 3
\* terminated lines a pre-existing log file may hold
MaxOldLines == 1
\* characters of a command line given to extract_command_name
MaxCmdLen == 3
\* characters of a log_path argument
MaxPathLen == 4

\* ----------------------------------------------------------------- atoms
NL == "\n"
\* a byte sequence that is not valid UTF-8, and what decoding replaces it by
BAD == "<0xFF>"
REPL == "<U+FFFD>"
SUCCESS == "[SUCCESS]"
ERROR == "[ERROR]"
DELIM == "=================================================="

\* what the child can write: text, an undecodable byte, marker text, newline
ChildBytes == {"a", BAD, SUCCESS, NL}
ExitCodes == {0, 7}
\* the command texts tried: a plain one and one that mentions a marker
Commands == {<<"exit 7">>, <<"Write-Output ", ERROR>>}
\* a line left by an earlier run (its sentinel)
OldLine == <<SUCCESS, " Command completed successfully.">>

\* ------------------------------------------------------- text operators
IsPrefix(s, t) == Len(s) <= Len(t) /\ SubSeq(t, 1, Len(s)) = s

\* index of the first NL of f after position pos, 0 when there is none
RECURSIVE NextNL(_, _)
NextNL(f, pos) ==
    IF pos >= Len(f) THEN 0
    ELSE IF f[pos + 1] = NL THEN pos + 1
    ELSE NextNL(f, pos + 1)

\* the lines of f as a text-mode iteration yields them (terminators dropped):
\* every terminated line, then a non-empty unterminated remainder
RECURSIVE LinesFrom(_, _)
LinesFrom(f, pos) ==
    IF pos >= Len(f) THEN <<>>
    ELSE LET i == NextNL(f, pos) IN
         IF i = 0 THEN <<SubSeq(f, pos + 1, Len(f))>>
         ELSE <<SubSeq(f, pos + 1, i - 1)>> \o LinesFrom(f, i)

Lines(f) == LinesFrom(f, 0)

\* sum(1 for _ in f)
CountLines(f) == Len(Lines(f))

\* $_ -match '\[SUCCESS\]|\[ERROR\]'
Matches(l) == \E i \in 1..Len(l) : l[i] \in {SUCCESS, ERROR}

\* encoding='utf-8', errors='replace' on the child's stdout
RECURSIVE Decode(_)
Decode(bytes) ==
    IF bytes = <<>> THEN <<>>
    ELSE <<IF Head(bytes) = BAD THEN REPL ELSE Head(bytes)>> \o Decode(Tail(bytes))

\* open(log_file_path, 'a'): the content already in the file is kept
OpenTruncate(f) == <<>>
OpenAppend(f) == f

HeaderText(cmd) ==
    <<"=== Executing PowerShell Command ===", NL, "Command: ">> \o cmd \o
    <<NL, "Log: ", "<log_file_path>", NL, "Started: ", "<timestamp>", NL,
      DELIM, NL, NL>>

FooterTextSwapped(n) ==
    <<NL, NL, DELIM, NL, "=== Execution completed ===", NL,
      "Ended: ", "<end_time>", NL, "Exit code: ", ToString(n), NL, DELIM, NL>> \o
    (IF n # 0
        THEN <<NL, SUCCESS, " Command completed successfully.", NL>>
        ELSE <<NL, ERROR, " Command failed with exit code ", ToString(n), ".", NL>>)
FooterText(n) ==
    <<NL, NL, DELIM, NL, "=== Execution completed ===", NL,
      "Ended: ", "<end_time>", NL, "Exit code: ", ToString(n), NL, DELIM, NL>> \o
    (IF n = 0
        THEN <<NL, SUCCESS, " Command completed successfully.", NL>>
        ELSE <<NL, ERROR, " Command failed with exit code ", ToString(n), ".", NL>>)

\* stdout.readline() on a pipe holding p: the bytes up to and including the
\* first NL, or, once the writer has closed the pipe, whatever is left
ReadlineLenNoTail(p, closed) == NextNL(p, 0)
ReadlineLen(p, closed) ==
    LET i == NextNL(p, 0) IN
    IF i > 0 THEN i ELSE IF closed THEN Len(p) ELSE 0

\* the pre-existing files tried: up to MaxOldLines terminated lines, then
\* possibly text with no terminator after it
RECURSIVE TerminatedFiles(_)
TerminatedFiles(n) ==
    IF n = 0 THEN {<<>>}
    ELSE LET prev == TerminatedFiles(n - 1) IN
         prev \cup {f \o OldLine \o <<NL>> : f \in prev}
OldFiles ==
    TerminatedFiles(MaxOldLines) \cup
    {f \o <<"old">> : f \in TerminatedFiles(MaxOldLines)}

\* ------------------------------------------- log file naming (characters)
\* safe_name[:30]
NameLimit == 30
\* the characters tried in a command line: a letter, dash, underscore, dot,
\* a path separator, whitespace, a pipe and a character re.sub replaces
CmdChars == {"a", "-", "_", ".", "/", " ", "|", "$"}
PathChars == {"d", ".", "/"}
\* [a-zA-Z0-9_-], as far as the characters of the model go
SafeChars == {"a", "c", "d", "m", "n", "o", "-", "_"}
COMMAND == <<"c", "o", "m", "m", "a", "n", "d">>

RECURSIVE SeqsUpTo(_, _)
SeqsUpTo(S, n) ==
    IF n = 0 THEN {<<>>}
    ELSE LET prev == SeqsUpTo(S, n - 1) IN
         prev \cup {Append(x, c) : x \in prev, c \in S}

Pad(n) == [i \in 1..n |-> "a"]

\* short command lines, and long ones that reach the limit of 30
CmdInputs ==
    SeqsUpTo(CmdChars, MaxCmdLen) \cup
    {Pad(k) \o x : k \in {NameLimit - 1, NameLimit},
                   x \in SeqsUpTo(CmdChars, MaxCmdLen - 1)}
LogPaths == SeqsUpTo(PathChars, MaxPathLen)
\* the commands tried together with a log_path
RouteCmds == {<<"a">>, <<"/", ".">>}
\* sys.argv[1:]
Argvs ==
    {<<c>> : c \in CmdInputs} \cup {<<c, q>> : c \in RouteCmds, q \in LogPaths}

Has(x, c) == \E k \in 1..Len(x) : x[k] = c

\* str.strip(chars), one side at a time
RECURSIVE LStrip(_, _)
LStrip(x, cs) ==
    IF x # <<>> /\ Head(x) \in cs THEN LStrip(Tail(x), cs) ELSE x
RECURSIVE RStrip(_, _)
RStrip(x, cs) ==
    IF x # <<>> /\ x[Len(x)] \in cs THEN RStrip(SubSeq(x, 1, Len(x) - 1), cs)
    ELSE x
StripChars(x, cs) == RStrip(LStrip(x, cs), cs)

\* re.split(r'[\s|;]', command, maxsplit=1)[0]
RECURSIVE FirstToken(_)
FirstToken(x) ==
    IF x = <<>> \/ Head(x) \in {" ", "|", ";"} THEN <<>>
    ELSE <<Head(x)>> \o FirstToken(Tail(x))

\* the components of a path: split at the separators, empty components and
\* '.' components dropped, '..' kept
RECURSIVE SplitSep(_, _)
SplitSep(x, cur) ==
    IF x = <<>> THEN <<cur>>
    ELSE IF Head(x) = "/" THEN <<cur>> \o SplitSep(Tail(x), <<>>)
    ELSE SplitSep(Tail(x), Append(cur, Head(x)))
PathParts(x) == SelectSeq(SplitSep(x, <<>>), LAMBDA c : c # <<>> /\ c # <<".">>)

\* Path(x).name
PathName(x) ==
    LET ps == PathParts(x) IN IF ps = <<>> THEN <<>> ELSE ps[Len(ps)]

\* name.rfind('.'), counted from 1, 0 when there is no dot
RECURSIVE RFindDot(_, _)
RFindDot(x, k) ==
    IF k = 0 THEN 0 ELSE IF x[k] = "." THEN k ELSE RFindDot(x, k - 1)

\* Path(name).stem
Stem(name) ==
    LET j == RFindDot(name, Len(name)) IN
    IF 1 < j /\ j < Len(name) THEN SubSeq(name, 1, j - 1) ELSE name

\* re.sub(r'[^a-zA-Z0-9_-]', '_', command_name)
Sanitize(name) ==
    [k \in 1..Len(name) |-> IF name[k] \in SafeChars THEN name[k] ELSE "_"]

Take(x, n) == SubSeq(x, 1, IF Len(x) < n THEN Len(x) ELSE n)

extract_command_name_NoFallback(cmd) ==
    LET first_token == FirstToken(StripChars(cmd, {" "}))
        name == PathName(first_token)
        stem == IF Has(name, ".") THEN Stem(name) ELSE name
    IN StripChars(Take(Sanitize(stem), NameLimit), {"_"})
extract_command_name(cmd) ==
    LET first_token == FirstToken(StripChars(cmd, {" "}))
        name == PathName(first_token)
        stem == IF Has(name, ".") THEN Stem(name) ELSE name
        safe_name == StripChars(Take(Sanitize(stem), NameLimit), {"_"})
    IN IF safe_name = <<>> THEN COMMAND ELSE safe_name

\* Path(x).resolve(): an absolute path as its components, '..' taken out
\* where there is a component to go up from
RECURSIVE Collapse(_, _)
Collapse(done, rest) ==
    IF rest = <<>> THEN done
    ELSE IF Head(rest) = <<".", ".">> /\ Len(done) > 1
                /\ done[Len(done)] # <<".", ".">>
         THEN Collapse(SubSeq(done, 1, Len(done) - 1), Tail(rest))
         ELSE Collapse(Append(done, Head(rest)), Tail(rest))
Resolve(x) ==
    Collapse(IF x # <<>> /\ Head(x) = "/" THEN <<<<"<root>">>>> ELSE <<<<"<cwd>">>>>,
             PathParts(x))

\* an optional argument is <<>> (None) or <<value>>; Python's truth of it
Truthy(opt) == opt # <<>> /\ opt[1] # <<>>

\* f"log_{command_name}_{timestamp}.log"
LogFilename(name) == <<"log_">> \o name \o <<"_", "<timestamp>", ".log">>

\* ------------------------------------------------------------------ state
VARIABLES
    command,            \* sys.argv[1]
    exists,             \* log_file_path.exists()
    file,               \* content of the log file
    file0,              \* content of the log file when the run started
    pc,                 \* where run_command_with_viewer is
    initial_line_count, \* the skip offset
    line,               \* the loop variable of the streaming loop
    error,              \* the exception that ended the run, "" for none
    retval,             \* <<n>> once run_command_with_viewer returned n
    returncode,         \* command_process.returncode after wait()
    cstate,             \* the command's child: none, running, exited, spawn_failed
    exitcode,           \* the exit code of the child once it has exited
    pipe,               \* bytes the child wrote that readline has not consumed
    produced,           \* every byte the child wrote
    vstate,             \* the viewer: NONE, STARTING, TAILING, COMPLETED, ...
    vskip,              \* the -Skip argument written into the viewer's script
    vpos,               \* how much of the file the viewer's reader consumed
    vskipped,           \* lines Select-Object dropped
    emitted,            \* lines Write-Output displayed
    partial,            \* the reader returned text that had no terminator yet
    argv,               \* sys.argv[1:], as characters
    log_file,           \* the log_file argument, <<>> for None
    log_folder,         \* the log_folder argument, <<>> for None
    command_name,       \* what extract_command_name returned
    log_file_path,      \* the resolved log file, as path components
    npc                 \* where the naming of the log file is

vars == <<command, exists, file, file0, pc, initial_line_count, line, error,
          retval, returncode, cstate, exitcode, pipe, produced,
          vstate, vskip, vpos, vskipped, emitted, partial,
          argv, log_file, log_folder, command_name, log_file_path, npc>>

orchVars == <<pc, initial_line_count, line, error, retval, returncode>>
childVars == <<cstate, exitcode, pipe, produced>>
viewerVars == <<vstate, vskip, vpos, vskipped, emitted, partial>>
nameVars == <<argv, log_file, log_folder, command_name, log_file_path, npc>>
inputVars == <<command, file0, nameVars>>

\* the naming of the log file is not followed: the path is "<log_file_path>"
NameIdle ==
    /\ argv = <<>>
    /\ log_file = <<>>
    /\ log_folder = <<>>
    /\ command_name = <<>>
    /\ log_file_path = <<>>
    /\ npc = "idle"

Init ==
    /\ NameIdle
    /\ command \in Commands
    /\ \/ exists = FALSE /\ file = <<>>
       \/ exists = TRUE /\ file \in OldFiles
    /\ file0 = file
    /\ pc = "resolve"
    /\ initial_line_count = 0
    /\ line = <<>>
    /\ error = ""
    /\ retval = <<>>
    /\ returncode = 0
    /\ cstate = "none"
    /\ exitcode = 0
    /\ pipe = <<>>
    /\ produced = <<>>
    /\ vstate = "NONE"
    /\ vskip = 0
    /\ vpos = 0
    /\ vskipped = <<>>
    /\ emitted = <<>>
    /\ partial = FALSE

\* an exception leaves run_command_with_viewer (nothing catches it)
Raise(what) ==
    /\ pc' = "aborted"
    /\ error' = what

\* ----------------------------------------------------------- orchestrator
\* lines 70-85: resolve the path and create the directory
ResolvePath ==
    /\ pc = "resolve"
    /\ pc' = "count"
    /\ UNCHANGED <<initial_line_count, line, error, retval, returncode>>
    /\ UNCHANGED <<exists, file, childVars, viewerVars, inputVars>>

MkdirFails ==
    /\ pc = "resolve"
    /\ Raise("mkdir")
    /\ UNCHANGED <<initial_line_count, line, retval, returncode>>
    /\ UNCHANGED <<exists, file, childVars, viewerVars, inputVars>>

\* lines 91-96
CountExistingLines ==
    /\ pc = "count"
    /\ initial_line_count' = IF exists THEN CountLines(file) ELSE 0
    /\ pc' = "header"
    /\ UNCHANGED <<line, error, retval, returncode>>
    /\ UNCHANGED <<exists, file, childVars, viewerVars, inputVars>>

\* lines 97-98: the count raised, a warning is printed, the offset stays 0
CountFailsPartial ==
    /\ pc = "count"
    /\ exists
    /\ initial_line_count' = IF CountLines(file) > 1 THEN CountLines(file) - 1 ELSE 0
    /\ pc' = "header"
    /\ UNCHANGED <<line, error, retval, returncode>>
    /\ UNCHANGED <<exists, file, childVars, viewerVars, inputVars>>
CountFails ==
    /\ pc = "count"
    /\ exists
    /\ pc' = "header"
    /\ UNCHANGED <<initial_line_count, line, error, retval, returncode>>
    /\ UNCHANGED <<exists, file, childVars, viewerVars, inputVars>>

\* lines 101-106
WriteHeader ==
    /\ pc = "header"
    /\ file' = OpenAppend(file) \o HeaderText(command)
    /\ exists' = TRUE
    /\ pc' = "spawn_viewer"
    /\ UNCHANGED <<initial_line_count, line, error, retval, returncode>>
    /\ UNCHANGED <<childVars, viewerVars, inputVars>>

OpenHeaderFails ==
    /\ pc = "header"
    /\ Raise("open_header")
    /\ UNCHANGED <<initial_line_count, line, retval, returncode>>
    /\ UNCHANGED <<exists, file, childVars, viewerVars, inputVars>>

\* lines 113-154
SpawnViewerRecount ==
    /\ pc = "spawn_viewer"
    /\ vstate' = "STARTING"
    /\ vskip' = CountLines(file)
    /\ pc' = "spawn_command"
    /\ UNCHANGED <<initial_line_count, line, error, retval, returncode>>
    /\ UNCHANGED <<vpos, vskipped, emitted, partial>>
    /\ UNCHANGED <<exists, file, childVars, inputVars>>
SpawnViewer ==
    /\ pc = "spawn_viewer"
    /\ vstate' = "STARTING"
    /\ vskip' = initial_line_count
    /\ pc' = "spawn_command"
    /\ UNCHANGED <<initial_line_count, line, error, retval, returncode>>
    /\ UNCHANGED <<vpos, vskipped, emitted, partial>>
    /\ UNCHANGED <<exists, file, childVars, inputVars>>

\* lines 145-151: Popen raises and nothing catches it
SpawnViewerFails ==
    /\ pc = "spawn_viewer"
    /\ vstate' = "SPAWN_FAILED"
    /\ Raise("viewer_spawn")
    /\ UNCHANGED <<initial_line_count, line, retval, returncode>>
    /\ UNCHANGED <<vskip, vpos, vskipped, emitted, partial>>
    /\ UNCHANGED <<exists, file, childVars, inputVars>>

\* lines 160-172
SpawnCommand ==
    /\ pc = "spawn_command"
    /\ cstate' = "running"
    /\ pc' = "open_stream"
    /\ UNCHANGED <<initial_line_count, line, error, retval, returncode>>
    /\ UNCHANGED <<exitcode, pipe, produced>>
    /\ UNCHANGED <<exists, file, viewerVars, inputVars>>

SpawnCommandFailsSwallowed ==
    /\ pc = "spawn_command"
    /\ cstate' = "spawn_failed"
    /\ pc' = "footer"
    /\ returncode' = 1
    /\ UNCHANGED <<initial_line_count, line, error, retval>>
    /\ UNCHANGED <<exitcode, pipe, produced>>
    /\ UNCHANGED <<exists, file, viewerVars, inputVars>>
SpawnCommandFails ==
    /\ pc = "spawn_command"
    /\ cstate' = "spawn_failed"
    /\ Raise("child_spawn")
    /\ UNCHANGED <<initial_line_count, line, retval, returncode>>
    /\ UNCHANGED <<exitcode, pipe, produced>>
    /\ UNCHANGED <<exists, file, viewerVars, inputVars>>

\* line 175
OpenStream ==
    /\ pc = "open_stream"
    /\ file' = OpenAppend(file)
    /\ pc' = "read"
    /\ UNCHANGED <<initial_line_count, line, error, retval, returncode>>
    /\ UNCHANGED <<exists, childVars, viewerVars, inputVars>>

OpenStreamFails ==
    /\ pc = "open_stream"
    /\ Raise("open_stream")
    /\ UNCHANGED <<initial_line_count, line, retval, returncode>>
    /\ UNCHANGED <<exists, file, childVars, viewerVars, inputVars>>

\* line 176: readline returns the next line, or '' at end of file
ReadLine ==
    /\ pc = "read"
    /\ LET n == ReadlineLen(pipe, cstate = "exited") IN
       \/ /\ n > 0
          /\ line' = Decode(SubSeq(pipe, 1, n))
          /\ pipe' = SubSeq(pipe, n + 1, Len(pipe))
          /\ pc' = "write"
       \/ /\ n = 0
          /\ cstate = "exited"
          /\ line' = <<>>
          /\ pipe' = <<>>
          /\ pc' = "wait"
    /\ UNCHANGED <<initial_line_count, error, retval, returncode>>
    /\ UNCHANGED <<cstate, exitcode, produced>>
    /\ UNCHANGED <<exists, file, viewerVars, inputVars>>

\* lines 177-179: write the line and flush
WriteLineNoFlush ==
    /\ pc = "write"
    /\ pc' = "read"
    /\ UNCHANGED <<initial_line_count, line, error, retval, returncode>>
    /\ UNCHANGED <<exists, file, childVars, viewerVars, inputVars>>
WriteLine ==
    /\ pc = "write"
    /\ file' = file \o line
    /\ pc' = "read"
    /\ UNCHANGED <<initial_line_count, line, error, retval, returncode>>
    /\ UNCHANGED <<exists, childVars, viewerVars, inputVars>>

WriteLineFails ==
    /\ pc = "write"
    /\ Raise("write_stream")
    /\ UNCHANGED <<initial_line_count, line, retval, returncode>>
    /\ UNCHANGED <<exists, file, childVars, viewerVars, inputVars>>

\* line 182
Wait ==
    /\ pc = "wait"
    /\ cstate = "exited"
    /\ returncode' = exitcode
    /\ pc' = "footer"
    /\ UNCHANGED <<initial_line_count, line, error, retval>>
    /\ UNCHANGED <<exists, file, childVars, viewerVars, inputVars>>

\* lines 185-197
WriteFooter ==
    /\ pc = "footer"
    /\ file' = OpenAppend(file) \o FooterText(returncode)
    /\ pc' = "return"
    /\ UNCHANGED <<initial_line_count, line, error, retval, returncode>>
    /\ UNCHANGED <<exists, childVars, viewerVars, inputVars>>

OpenFooterFails ==
    /\ pc = "footer"
    /\ Raise("open_footer")
    /\ UNCHANGED <<initial_line_count, line, retval, returncode>>
    /\ UNCHANGED <<exists, file, childVars, viewerVars, inputVars>>

\* lines 199-205
ReturnAfterViewer ==
    /\ pc = "return"
    /\ vstate \in {"TERMINATED", "KILLED"}
    /\ retval' = <<returncode>>
    /\ pc' = "returned"
    /\ UNCHANGED <<initial_line_count, line, error, returncode>>
    /\ UNCHANGED <<exists, file, childVars, viewerVars, inputVars>>
Return ==
    /\ pc = "return"
    /\ retval' = <<returncode>>
    /\ pc' = "returned"
    /\ UNCHANGED <<initial_line_count, line, error, returncode>>
    /\ UNCHANGED <<exists, file, childVars, viewerVars, inputVars>>

\* ------------------------------------------------------------ the command
\* the child writes to its stdout/stderr, both connected to the pipe
ChildWrite ==
    /\ cstate = "running"
    /\ Len(produced) < MaxOut
    /\ \E b \in ChildBytes :
        /\ pipe' = Append(pipe, b)
        /\ produced' = Append(produced, b)
    /\ UNCHANGED <<cstate, exitcode>>
    /\ UNCHANGED <<exists, file, orchVars, viewerVars, inputVars>>

ChildExit ==
    /\ cstate = "running"
    /\ \E n \in ExitCodes : exitcode' = n
    /\ cstate' = "exited"
    /\ UNCHANGED <<pipe, produced>>
    /\ UNCHANGED <<exists, file, orchVars, viewerVars, inputVars>>

\* ------------------------------------------------------------- the viewer
\* lines 114-119: the banner, then Get-Content opens the file
ViewerStart ==
    /\ vstate = "STARTING"
    /\ vstate' = "TAILING"
    /\ UNCHANGED <<vskip, vpos, vskipped, emitted, partial>>
    /\ UNCHANGED <<exists, file, orchVars, childVars, inputVars>>

\* lines 122-142: one object through Select-Object -Skip and ForEach-Object
Deliver(l) ==
    IF Len(vskipped) < vskip
    THEN /\ vskipped' = Append(vskipped, l)
         /\ UNCHANGED <<emitted, vstate>>
    ELSE /\ emitted' = Append(emitted, l)
         /\ vstate' = IF Matches(l) THEN "COMPLETED" ELSE "TAILING"
         /\ UNCHANGED vskipped

\* line 122: Get-Content returns the next terminated line
ViewerReadLineNoBreak ==
    /\ vstate \in {"TAILING", "COMPLETED"}
    /\ LET i == NextNL(file, vpos) IN
       /\ i > 0
       /\ vpos' = i
       /\ Deliver(SubSeq(file, vpos + 1, i - 1))
    /\ UNCHANGED <<vskip, partial>>
    /\ UNCHANGED <<exists, file, orchVars, childVars, inputVars>>
ViewerReadLine ==
    /\ vstate = "TAILING"
    /\ LET i == NextNL(file, vpos) IN
       /\ i > 0
       /\ vpos' = i
       /\ Deliver(SubSeq(file, vpos + 1, i - 1))
    /\ UNCHANGED <<vskip, partial>>
    /\ UNCHANGED <<exists, file, orchVars, childVars, inputVars>>

\* line 122: the reader is at text that ends the file with no terminator
\* after it; it may return that text as a line
ViewerReadTail ==
    /\ vstate = "TAILING"
    /\ NextNL(file, vpos) = 0
    /\ vpos < Len(file)
    /\ vpos' = Len(file)
    /\ partial' = TRUE
    /\ Deliver(SubSeq(file, vpos + 1, Len(file)))
    /\ UNCHANGED vskip
    /\ UNCHANGED <<exists, file, orchVars, childVars, inputVars>>

\* lines 126-140: banner, countdown, break
ViewerClose ==
    /\ vstate = "COMPLETED"
    /\ vstate' = "TERMINATED"
    /\ UNCHANGED <<vskip, vpos, vskipped, emitted, partial>>
    /\ UNCHANGED <<exists, file, orchVars, childVars, inputVars>>

\* the console window is closed from outside
ViewerKilled ==
    /\ vstate \in {"STARTING", "TAILING"}
    /\ vstate' = "KILLED"
    /\ UNCHANGED <<vskip, vpos, vskipped, emitted, partial>>
    /\ UNCHANGED <<exists, file, orchVars, childVars, inputVars>>

OrchestratorNext ==
    \/ ResolvePath \/ MkdirFails
    \/ CountExistingLines \/ CountFails
    \/ WriteHeader \/ OpenHeaderFails
    \/ SpawnViewer \/ SpawnViewerFails
    \/ SpawnCommand \/ SpawnCommandFails
    \/ OpenStream \/ OpenStreamFails
    \/ ReadLine
    \/ WriteLine \/ WriteLineFails
    \/ Wait
    \/ WriteFooter \/ OpenFooterFails
    \/ Return

ChildNext == ChildWrite \/ ChildExit

ViewerNext ==
    ViewerStart \/ ViewerReadLine \/ ViewerReadTail \/ ViewerClose \/ ViewerKilled

Next == OrchestratorNext \/ ChildNext \/ ViewerNext

Spec == Init /\ [][Next]_vars

\* ------------------------------------------------- naming of the log file
\* the run is not followed: only __main__ and the path resolution are
RunIdle ==
    /\ command = <<>>
    /\ exists = FALSE
    /\ file = <<>>
    /\ file0 = <<>>
    /\ pc = "resolve"
    /\ initial_line_count = 0
    /\ line = <<>>
    /\ error = ""
    /\ retval = <<>>
    /\ returncode = 0
    /\ cstate = "none"
    /\ exitcode = 0
    /\ pipe = <<>>
    /\ produced = <<>>
    /\ vstate = "NONE"
    /\ vskip = 0
    /\ vpos = 0
    /\ vskipped = <<>>
    /\ emitted = <<>>
    /\ partial = FALSE

runVars == <<command, exists, file, file0, orchVars, childVars, viewerVars>>

NameInit ==
    /\ RunIdle
    /\ argv \in Argvs
    /\ log_file = <<>>
    /\ log_folder = <<>>
    /\ command_name = <<>>
    /\ log_file_path = <<>>
    /\ npc = "main"

\* lines 216-230
ParseArgsDotAnywhere ==
    /\ npc = "main"
    /\ IF Len(argv) > 1 /\ Has(argv[2], ".")
       THEN log_file' = <<argv[2]>> /\ log_folder' = <<>>
       ELSE /\ log_file' = <<>>
            /\ log_folder' = IF Len(argv) > 1 THEN <<argv[2]>> ELSE <<>>
    /\ npc' = "run"
    /\ UNCHANGED <<argv, command_name, log_file_path, runVars>>
ParseArgs ==
    /\ npc = "main"
    /\ IF Len(argv) > 1 /\ Has(PathName(argv[2]), ".")
       THEN log_file' = <<argv[2]>> /\ log_folder' = <<>>
       ELSE /\ log_file' = <<>>
            /\ log_folder' = IF Len(argv) > 1 THEN <<argv[2]>> ELSE <<>>
    /\ npc' = "run"
    /\ UNCHANGED <<argv, command_name, log_file_path, runVars>>

\* lines 70-85
ResolveTarget ==
    /\ npc = "run"
    /\ IF Truthy(log_file)
       THEN /\ log_file_path' = Resolve(log_file[1])
            /\ UNCHANGED command_name
       ELSE /\ command_name' = extract_command_name(argv[1])
            /\ log_file_path' =
                 Append(Resolve(IF Truthy(log_folder) THEN log_folder[1]
                                ELSE <<".">>),
                        LogFilename(command_name'))
    /\ npc' = "resolved"
    /\ UNCHANGED <<argv, log_file, log_folder, runVars>>

NameNext == ParseArgs \/ ResolveTarget

NameSpec == NameInit /\ [][NameNext]_vars

\* ------------------------------------------------------------ properties
\* what this run added to the file
Appended == SubSeq(file, Len(file0) + 1, Len(file))

\* the footer has been written
FooterWritten == pc \in {"return", "returned"}

\* C1: when the child exited with code n and the footer is written, the last
\* line of the log is the SUCCESS sentinel if n = 0 and the ERROR sentinel
\* carrying n otherwise, the footer's 'Exit code' line carries n, and the
\* value run_command_with_viewer returns is n.
C1_FooterAndExitCode ==
    FooterWritten =>
        LET ls == Lines(file)
            L == Len(ls)
        IN /\ L >= 4
           /\ ls[L - 3] = <<"Exit code: ", ToString(exitcode)>>
           /\ exitcode = 0 =>
                ls[L] = <<SUCCESS, " Command completed successfully.">>
           /\ exitcode # 0 =>
                ls[L] = <<ERROR, " Command failed with exit code ",
                          ToString(exitcode), ".">>
           /\ pc = "returned" => retval = <<exitcode>>

C1_Witness == pc = "returned" /\ exitcode # 0 /\ cstate = "exited"

\* C2: in a run whose child terminated and whose footer is written, exactly
\* one of the lines the run appended matches the pattern the viewer tests
\* for, and it is the last line appended.
C2_ExactlyOneSentinel ==
    FooterWritten =>
        LET ls == Lines(Appended) IN
        /\ Cardinality({i \in 1..Len(ls) : Matches(ls[i])}) = 1
        /\ Matches(ls[Len(ls)])

\* C3: the viewer is in COMPLETED (or beyond) only when the child has exited
\* and the footer with its sentinel has been appended.
C3_CloseOnlyAfterFinish ==
    vstate \in {"COMPLETED", "TERMINATED"} =>
        cstate = "exited" /\ FooterWritten

\* C4: when the skip offset is the number k of lines the file held before the
\* run, the viewer skips only those k lines, all of them before it displays
\* anything, and the first line it displays is the first line of this run's
\* header.
C4_SkipsExactlyOld ==
    (vstate # "NONE" /\ vskip = CountLines(file0)) =>
        /\ IsPrefix(vskipped, Lines(file0))
        /\ emitted # <<>> =>
            /\ vskipped = Lines(file0)
            /\ emitted[1] = <<"=== Executing PowerShell Command ===">>

\* C5: what the viewer has emitted is a prefix of the lines of the file after
\* the skip offset, and it never took text that had no terminator yet.
C5_PrefixOfCompleteLines ==
    /\ ~partial
    /\ LET ls == Lines(file) IN
       IsPrefix(emitted, SubSeq(ls, vskip + 1, Len(ls)))

\* C6: every step leaves the previous content of the log a prefix of the new
\* content, and a step of the viewer leaves the log unchanged.
C6_AppendOnly ==
    [][IsPrefix(file, file') /\ (ViewerNext => file' = file)]_vars

C6_Witness == pc = "returned" /\ file0 # <<>> /\ Len(emitted) > 0

C8_ViewerFailureNonFatal ==
    vstate = "SPAWN_FAILED" => pc # "aborted"

\* C9: when spawning the command fails the run is aborted with that error,
\* it has appended its header and nothing else (no footer, no sentinel), and
\* no value is returned.
C9_SpawnFailureNoSentinel ==
    cstate = "spawn_failed" =>
        /\ pc = "aborted"
        /\ error = "child_spawn"
        /\ Appended = HeaderText(command)
        /\ retval = <<>>

C9_Witness == cstate = "spawn_failed" /\ file0 # <<>> /\ vstate = "TAILING"

\* C10: a failure to create the directory or to open or append to the log is
\* raised only while the command's child has not been spawned.
C10_FsErrorsBeforeSpawn ==
    error \in {"mkdir", "open_header", "open_stream", "write_stream",
               "open_footer"} => cstate = "none"

\* C11: a viewer that was given the number of lines the file held before the
\* run and has closed itself has read the whole log of a finished run, and
\* the last line it emitted is the log's last line, the footer's sentinel.
C11_ViewerEndsAtSentinel ==
    (vstate = "TERMINATED" /\ vskip = CountLines(file0)) =>
        /\ FooterWritten
        /\ vpos = Len(file)
        /\ emitted[Len(emitted)] = Lines(file)[Len(Lines(file))]

\* C12: a step of the viewer neither enables nor disables a step of the
\* orchestrator and changes nothing the orchestrator or the child reads, and
\* the log and the value of a returned run are determined by the command, the
\* file found and the child alone.
C12_OrchestratorIndependent ==
    [][/\ ViewerNext =>
            /\ (ENABLED OrchestratorNext)' <=> ENABLED OrchestratorNext
            /\ (ENABLED Return)' <=> ENABLED Return
            /\ (ENABLED WriteFooter)' <=> ENABLED WriteFooter
            /\ UNCHANGED <<orchVars, childVars, exists, file>>
       /\ pc' = "returned" =>
            /\ file' = file0' \o HeaderText(command') \o Decode(produced')
                         \o FooterText(exitcode')
            /\ retval' = <<exitcode'>>]_vars

C12_Witness == pc = "returned" /\ vstate = "STARTING"

\* the place of each step in the order of run_command_with_viewer
Rank(p) ==
    CASE p = "resolve" -> 0
      [] p = "count" -> 1
      [] p = "header" -> 2
      [] p = "spawn_viewer" -> 3
      [] p = "spawn_command" -> 4
      [] p = "open_stream" -> 5
      [] p \in {"read", "write"} -> 6
      [] p = "wait" -> 7
      [] p = "footer" -> 8
      [] p = "return" -> 9
      [] p = "returned" -> 10
      [] OTHER -> 11

\* C15: the steps follow the order count, header, viewer, command, stream,
\* footer, return; the skip offset is set only by the counting step, while
\* the file is still as it was found, and the viewer gets that value; the
\* viewer exists before the command does; and while the child runs the run
\* has appended its header and lines of the child's output, no footer, and
\* has not returned.
C15_OrchestrationOrder ==
    [][/\ pc' # pc =>
            \/ pc' = "aborted"
            \/ Rank(pc') = Rank(pc) + 1
            \/ pc = "write" /\ pc' = "read"
            \/ pc = "read" /\ pc' = "write"
       /\ initial_line_count' # initial_line_count =>
            pc = "count" /\ file = file0 /\ file' = file0
       /\ file' # file => Rank(pc) \in {2, 6, 8}
       /\ vstate' \notin {"NONE", "SPAWN_FAILED"} =>
            vskip' = initial_line_count' /\ Rank(pc') >= 4
       /\ cstate' # "none" => vstate' # "NONE" /\ Rank(pc') >= 5
       /\ cstate' = "running" =>
            /\ pc' \in {"open_stream", "read", "write", "aborted"}
            /\ IsPrefix(Appended', HeaderText(command') \o Decode(produced'))
            /\ retval' = <<>>
       /\ Rank(pc') \in 9..10 => cstate' = "exited"]_vars

C15_Witness ==
    /\ cstate = "running"
    /\ pc = "read"
    /\ Len(Appended) > Len(HeaderText(command))
    /\ initial_line_count > 0

\* C16: the viewer's state only moves STARTING, TAILING, COMPLETED,
\* TERMINATED (or is killed before it completes); it is COMPLETED or
\* TERMINATED exactly when the last line it emitted matches the pattern, and
\* no earlier emitted line does; once COMPLETED it reads and emits nothing.
C16_ViewerForwardOnly ==
    [][/\ vstate' # vstate =>
            \/ vstate = "NONE" /\ vstate' \in {"STARTING", "SPAWN_FAILED"}
            \/ vstate = "STARTING" /\ vstate' \in {"TAILING", "KILLED"}
            \/ vstate = "TAILING" /\ vstate' \in {"COMPLETED", "KILLED"}
            \/ vstate = "COMPLETED" /\ vstate' = "TERMINATED"
       /\ vstate \in {"COMPLETED", "TERMINATED"} =>
            /\ UNCHANGED <<vpos, emitted, vskipped>>
            /\ emitted # <<>>
            /\ Matches(emitted[Len(emitted)])
       /\ \A i \in 1..Len(emitted') :
            Matches(emitted'[i]) =>
                i = Len(emitted') /\ vstate' \in {"COMPLETED", "TERMINATED"}
       /\ vstate = "COMPLETED" => ENABLED ViewerClose]_vars

C16_Witness ==
    /\ vstate = "TERMINATED"
    /\ pc = "read"
    /\ Len(file) > vpos
    /\ NextNL(file, vpos) > 0

\* what readline has handed to the loop and the loop has not written yet
Pending == IF pc = "write" THEN line ELSE <<>>

\* C17: while the output is streamed, the log holds the header and every
\* byte read from the child except at most the one line just read: the log,
\* that line and what is still in the pipe make up the header followed by
\* the child's decoded output.
C17_NoBatching ==
    pc \in {"read", "write", "wait"} =>
        /\ Appended \o Pending \o Decode(pipe) =
               HeaderText(command) \o Decode(produced)
        /\ Len(Lines(Pending)) <= 1
        /\ pc = "write" => Pending # <<>>

C17_Witness ==
    /\ pc = "write"
    /\ Len(Appended) > Len(HeaderText(command))
    /\ pipe # <<>>

\* the lines of ls up to and including the first one that matches
RECURSIVE UpToFirstMatch(_)
UpToFirstMatch(ls) ==
    IF ls = <<>> THEN <<>>
    ELSE IF Matches(Head(ls)) THEN <<Head(ls)>>
    ELSE <<Head(ls)>> \o UpToFirstMatch(Tail(ls))

\* C18: whenever the viewer starts reading, what it emits is the lines this
\* run appended, from the header's first line on, none missed, up to the
\* first line that matches the pattern (the viewer having been given the
\* number of lines the file held, and only terminated lines being read).
C18_LateStartMissesNothing ==
    (vstate \notin {"NONE", "SPAWN_FAILED"} /\ vskip = CountLines(file0)
        /\ ~partial) =>
        IsPrefix(emitted, UpToFirstMatch(Lines(Appended)))

\* the count of the existing lines was tried and failed
CountFailed ==
    /\ pc \notin {"resolve", "count"}
    /\ error # "mkdir"
    /\ initial_line_count # CountLines(file0)

\* C19: when counting the existing lines failed the skip offset is 0, the
\* run goes on: it appends its header after what the file held, then the
\* output, footer and sentinel, and returns the child's exit code; the viewer
\* gets Skip 0, skips nothing and emits from the file's first line.
C19_CountFailureNotFatal ==
    CountFailed =>
        /\ initial_line_count = 0
        /\ error \in {"", "open_header", "viewer_spawn", "child_spawn",
                      "open_stream", "write_stream", "open_footer"}
        /\ pc = "header" => ENABLED WriteHeader
        /\ Rank(pc) \in 3..10 => IsPrefix(file0 \o HeaderText(command), file)
        /\ vstate \notin {"NONE", "SPAWN_FAILED"} =>
            /\ vskip = 0
            /\ vskipped = <<>>
            /\ emitted # <<>> => emitted[1] = Lines(file)[1]
        /\ FooterWritten =>
            file = file0 \o HeaderText(command) \o Decode(produced)
                     \o FooterText(exitcode)
        /\ pc = "returned" => retval = <<exitcode>>

C19_Witness == CountFailed /\ pc = "returned" /\ emitted # <<>>

\* C13: the identifier extract_command_name returns is not empty, at most 30
\* characters long and made of [A-Za-z0-9_-] only, and it is 'command' when
\* the command line holds nothing but whitespace, separators, dots,
\* underscores and characters that are not allowed.
C13_NameWellFormed ==
    (npc = "resolved" /\ log_file = <<>>) =>
        /\ Len(command_name) \in 1..30
        /\ \A k \in 1..Len(command_name) : command_name[k] \in SafeChars
        /\ (\A k \in 1..Len(argv[1]) :
                argv[1][k] \in {" ", "|", "/", ".", "_", "$"})
            => command_name = COMMAND

C13_Witness ==
    /\ npc = "resolved"
    /\ command_name = COMMAND
    /\ Has(argv[1], ".")
    /\ Has(argv[1], "/")

\* C14: a log_path whose last path component holds a '.' is the log file
\* itself and no name is made up; any other log_path is a directory and the
\* log file is log_<identifier>_<timestamp>.log in it; with no log_path the
\* directory is the current one.
C14_LogTargetRouting ==
    npc = "resolved" =>
        LET given == Len(argv) > 1
            parts == IF given THEN PathParts(argv[2]) ELSE <<>>
            dotted == parts # <<>> /\ Has(parts[Len(parts)], ".")
            n == Len(log_file_path)
        IN IF dotted
           THEN /\ log_file_path = Resolve(argv[2])
                /\ command_name = <<>>
           ELSE /\ SubSeq(log_file_path, 1, n - 1) =
                     Resolve(IF given THEN argv[2] ELSE <<>>)
                /\ log_file_path[n] =
                     <<"log_">> \o extract_command_name(argv[1])
                        \o <<"_", "<timestamp>", ".log">>

C14_Witness ==
    /\ npc = "resolved"
    /\ log_file # <<>>
    /\ Has(log_file[1], "/")
    /\ Len(log_file_path) > 2

====
